---------------------------- MODULE Spec2Model ----------------------------
(***************************************************************************)
(* A model of src/main.py: the profile record, the redaction policy, the   *)
(* drag payload codec and the handlers of MainWindow, DraggableList and    *)
(* DropPad.                                                                *)
(*                                                                         *)
(* A Python str is a sequence of one-character strings, so that strip,     *)
(* lower, startswith, the regular expression, json.dumps and json.loads    *)
(* work on characters as the code's do.  The characters are ASCII.         *)
(***************************************************************************)
EXTENDS Integers, Sequences, FiniteSets, TLC

VARIABLES
    profile,         \* MainWindow.profile.raw: a sequence of <<key, value>>, keys unique
    safe_list,       \* MainWindow.safe_list: its items, [text, key, value]
    forbidden_list,  \* MainWindow.forbidden_list: its items' texts
    url_input,       \* MainWindow.url_input: its text
    pad,             \* MainWindow.drop_pad: the texts appended to it
    clipboard,       \* QApplication.clipboard(): its text
    lastOp,          \* the handler that ran last, and how it ended
    file,            \* the file the last load_json read: <<>> or <<f>>
    written,         \* what the last save_json wrote: <<>> or <<text>>
    opened,          \* what the last open_url handed to QDesktopServices: <<>> or <<url>>
    drag,            \* the last drag gesture: <<>> or <<[row, md]>>
    raised,          \* whether the last handler let an exception out
    keyArg,          \* the argument of the last is_forbidden_key call
    keyRes           \* its result, "unset" before the call

appVars == <<profile, safe_list, forbidden_list, url_input, pad, clipboard>>
ioVars == <<lastOp, file, written, opened, drag, raised>>
keyVars == <<keyArg, keyRes>>
vars == <<profile, safe_list, forbidden_list, url_input, pad, clipboard,
          lastOp, file, written, opened, drag, raised, keyArg, keyRes>>

---------------------------------------------------------------------------
(* Bounds *)

\* The longest key SpecKey hands to is_forbidden_key.
MaxKeyLen == 3
\* The most fields of a generated JSON object.
MaxFields == 2
\* The most records the drop pad holds before it is cleared.
MaxPad == 1

---------------------------------------------------------------------------
(* Python str *)

Range(s) == {s[i] : i \in DOMAIN s}

\* The characters str.isspace() holds of, among ASCII.
Whitespace == {" ", "\t", "\n", "\r", "\f"}

\* The lower-case letter of each upper-case one.
LowerOf ==
    [A |-> "a", B |-> "b", C |-> "c", D |-> "d", E |-> "e", F |-> "f", G |-> "g",
     H |-> "h", I |-> "i", J |-> "j", K |-> "k", L |-> "l", M |-> "m", N |-> "n",
     O |-> "o", P |-> "p", Q |-> "q", R |-> "r", S |-> "s", T |-> "t", U |-> "u",
     V |-> "v", W |-> "w", X |-> "x", Y |-> "y", Z |-> "z"]

LowerChar(c) == IF c \in DOMAIN LowerOf THEN LowerOf[c] ELSE c

\* str.lower()
lower(s) == [i \in 1..Len(s) |-> LowerChar(s[i])]

RECURSIVE lstrip(_)
lstrip(s) == IF s # <<>> /\ Head(s) \in Whitespace THEN lstrip(Tail(s)) ELSE s

RECURSIVE rstrip(_)
rstrip(s) ==
    IF s # <<>> /\ s[Len(s)] \in Whitespace THEN rstrip(SubSeq(s, 1, Len(s) - 1)) ELSE s

\* str.strip()
strip(s) == rstrip(lstrip(s))

\* str.startswith(p)
startswith(s, p) == Len(s) >= Len(p) /\ SubSeq(s, 1, Len(p)) = p

RECURSIVE Concat(_)
Concat(ss) == IF ss = <<>> THEN <<>> ELSE Head(ss) \o Concat(Tail(ss))

---------------------------------------------------------------------------
(* Python values: str, int, bool, None, list, dict *)

PyStr(s) == [t |-> "str", s |-> s]
PyInt(n) == [t |-> "int", n |-> n]
PyBool(b) == [t |-> "bool", b |-> b]
PyNone == [t |-> "none"]
PyList(xs) == [t |-> "list", items |-> xs]
\* A dict keeps insertion order: a sequence of <<key, value>>, the keys str.
PyDict(kvs) == [t |-> "dict", items |-> kvs]

\* bool(v)
Truthy(v) ==
    CASE v.t = "str" -> v.s # <<>>
      [] v.t = "int" -> v.n # 0
      [] v.t = "bool" -> v.b
      [] v.t = "none" -> FALSE
      [] v.t \in {"list", "dict"} -> v.items # <<>>

DigitChar(d) == <<"0","1","2","3","4","5","6","7","8","9">>[d + 1]

RECURSIVE Digits(_)
Digits(n) == IF n < 10 THEN <<DigitChar(n)>> ELSE Digits(n \div 10) \o <<DigitChar(n % 10)>>

\* str(int)
IntStr(n) == IF n < 0 THEN <<"-">> \o Digits(-n) ELSE Digits(n)

\* str(v), of the scalars
py_str(v) ==
    CASE v.t = "str" -> v.s
      [] v.t = "int" -> IntStr(v.n)
      [] v.t = "bool" -> IF v.b THEN <<"T","r","u","e">> ELSE <<"F","a","l","s","e">>
      [] v.t = "none" -> <<"N","o","n","e">>

\* dict.get(key, default)
RECURSIVE dict_get(_, _, _)
dict_get(kvs, key, default) ==
    IF kvs = <<>> THEN default
    ELSE IF Head(kvs)[1] = key THEN Head(kvs)[2]
    ELSE dict_get(Tail(kvs), key, default)

HasKey(kvs, key) == \E i \in DOMAIN kvs : kvs[i][1] = key

\* d[key] = value: in place when the key is there, at the end when not
dict_set(kvs, key, value) ==
    IF HasKey(kvs, key)
    THEN [i \in DOMAIN kvs |-> IF kvs[i][1] = key THEN <<key, value>> ELSE kvs[i]]
    ELSE Append(kvs, <<key, value>>)

---------------------------------------------------------------------------
(* The redaction policy *)

\* A pattern is a sequence of tokens: "^", "$" or a literal character.
Bol == [kind |-> "bol"]
Eol == [kind |-> "eol"]
Lit(c) == [kind |-> "lit", ch |-> c]

FORBIDDEN_KEY_PATTERNS == << <<Bol, Lit("z"), Eol>> >>

\* Whether pattern p matches string k with its first i characters consumed.
\* "^" matches at the start; "$" at the end and before a newline that ends k.
RECURSIVE re_match(_, _, _)
re_match(p, k, i) ==
    IF p = <<>> THEN TRUE
    ELSE LET tok == Head(p) IN
         CASE tok.kind = "bol" -> i = 0 /\ re_match(Tail(p), k, i)
           [] tok.kind = "eol" ->
                /\ \/ i = Len(k)
                   \/ i = Len(k) - 1 /\ k[Len(k)] = "\n"
                /\ re_match(Tail(p), k, i)
           [] tok.kind = "lit" ->
                /\ i < Len(k)
                /\ k[i + 1] = tok.ch
                /\ re_match(Tail(p), k, i + 1)

\* re.search(p, k)
re_search(p, k) == \E i \in 0..Len(k) : re_match(p, k, i)

\* A faulty variant: the key is not stripped.
is_forbidden_key_unstripped(key) ==
    LET k == lower(IF Truthy(key) THEN key.s ELSE <<>>)
    IN  \E j \in DOMAIN FORBIDDEN_KEY_PATTERNS : re_search(FORBIDDEN_KEY_PATTERNS[j], k)

\* key is a str or None.
is_forbidden_key(key) ==
    LET k == lower(strip(IF Truthy(key) THEN key.s ELSE <<>>))
    IN  \E j \in DOMAIN FORBIDDEN_KEY_PATTERNS : re_search(FORBIDDEN_KEY_PATTERNS[j], k)

---------------------------------------------------------------------------
(* json.dumps *)

\* json.encoder's ESCAPE_ASCII, of the ASCII characters of the model.
EscapeChar(c) ==
    CASE c = "\"" -> <<"\\", "\"">>
      [] c = "\\" -> <<"\\", "\\">>
      [] c = "\n" -> <<"\\", "n">>
      [] c = "\r" -> <<"\\", "r">>
      [] c = "\t" -> <<"\\", "t">>
      [] c = "\f" -> <<"\\", "f">>
      [] OTHER -> <<c>>

dumps_str(s) == <<"\"">> \o Concat([i \in 1..Len(s) |-> EscapeChar(s[i])]) \o <<"\"">>

\* A scalar value
dumps_val(v) ==
    CASE v.t = "str" -> dumps_str(v.s)
      [] v.t = "int" -> IntStr(v.n)
      [] v.t = "bool" -> IF v.b THEN <<"t","r","u","e">> ELSE <<"f","a","l","s","e">>
      [] v.t = "none" -> <<"n","u","l","l">>

RECURSIVE Join(_, _)
Join(sep, ss) ==
    IF ss = <<>> THEN <<>>
    ELSE IF Len(ss) = 1 THEN ss[1]
    ELSE ss[1] \o sep \o Join(sep, Tail(ss))

\* json.dumps(d, indent=indent) of a dict of scalars; indent is 0 for None.
\* Without an indent the separators are ", " and ": "; with one, "," and a
\* new line, then ": ".
json_dumps(kvs, indent) ==
    LET pair(i) == dumps_str(kvs[i][1]) \o <<":", " ">> \o dumps_val(kvs[i][2])
        pairs == [i \in 1..Len(kvs) |-> pair(i)]
        spaces == [j \in 1..indent |-> " "]
    IN  IF kvs = <<>> THEN <<"{", "}">>
        ELSE IF indent = 0 THEN <<"{">> \o Join(<<",", " ">>, pairs) \o <<"}">>
        ELSE <<"{", "\n">> \o spaces \o Join(<<",", "\n">> \o spaces, pairs)
             \o <<"\n", "}">>

---------------------------------------------------------------------------
(* json.loads: of integers, strings, true, false, null, arrays and objects *)

JsonWs == {" ", "\t", "\n", "\r"}
DigitChars == {"0","1","2","3","4","5","6","7","8","9"}
DigitVal(c) ==
    CASE c = "0" -> 0 [] c = "1" -> 1 [] c = "2" -> 2 [] c = "3" -> 3 [] c = "4" -> 4
      [] c = "5" -> 5 [] c = "6" -> 6 [] c = "7" -> 7 [] c = "8" -> 8 [] c = "9" -> 9

\* A parse ends with a value and the place after it, or fails (JSONDecodeError).
Parsed(v, i) == [ok |-> TRUE, v |-> v, i |-> i]
ParseFail == [ok |-> FALSE, v |-> PyNone, i |-> 0]

At(s, i) == IF i <= Len(s) THEN s[i] ELSE "EOF"

RECURSIVE skip_ws(_, _)
skip_ws(s, i) == IF i <= Len(s) /\ s[i] \in JsonWs THEN skip_ws(s, i + 1) ELSE i

\* The characters after an opening quote, to the closing one (py_scanstring,
\* strict: a control character in a string is an error).
RECURSIVE scan_string(_, _, _)
scan_string(s, i, acc) ==
    LET c == At(s, i)
        e == At(s, i + 1)
    IN  CASE c = "EOF" -> ParseFail
          [] c = "\"" -> Parsed(PyStr(acc), i + 1)
          [] c \in {"\n", "\r", "\t", "\f"} -> ParseFail
          [] c = "\\" /\ e \in {"\"", "\\", "/"} -> scan_string(s, i + 2, Append(acc, e))
          [] c = "\\" /\ e = "n" -> scan_string(s, i + 2, Append(acc, "\n"))
          [] c = "\\" /\ e = "r" -> scan_string(s, i + 2, Append(acc, "\r"))
          [] c = "\\" /\ e = "t" -> scan_string(s, i + 2, Append(acc, "\t"))
          [] c = "\\" /\ e = "f" -> scan_string(s, i + 2, Append(acc, "\f"))
          [] c = "\\" /\ e \notin {"\"", "\\", "/", "n", "r", "t", "f", "b", "u"} -> ParseFail
          [] c \notin {"EOF", "\"", "\\", "\n", "\r", "\t", "\f"} ->
                scan_string(s, i + 1, Append(acc, c))

RECURSIVE scan_digits(_, _, _)
scan_digits(s, i, n) ==
    IF At(s, i) \in DigitChars THEN scan_digits(s, i + 1, 10 * n + DigitVal(s[i]))
    ELSE Parsed(PyInt(n), i)

\* NUMBER_RE, its integer part: -?(0|[1-9][0-9]*)
scan_number(s, i) ==
    LET neg == At(s, i) = "-"
        j == IF neg THEN i + 1 ELSE i
        r == IF At(s, j) = "0" THEN Parsed(PyInt(0), j + 1) ELSE scan_digits(s, j, 0)
    IN  IF At(s, j) \notin DigitChars THEN ParseFail
        ELSE IF neg THEN Parsed(PyInt(-r.v.n), r.i) ELSE r

Literal(s, i, word) == i + Len(word) - 1 <= Len(s) /\ SubSeq(s, i, i + Len(word) - 1) = word

RECURSIVE scan_value(_, _)
RECURSIVE scan_members(_, _, _)
RECURSIVE scan_elements(_, _, _)

\* JSONObject, after a key's opening quote at i - 1: the pairs go into the dict
\* one by one, so a repeated key keeps its first place and its last value.
scan_members(s, i, kvs) ==
    LET key == scan_string(s, i, <<>>)
        colon == skip_ws(s, key.i)
        val == scan_value(s, skip_ws(s, colon + 1))
        after == skip_ws(s, val.i)
        next == skip_ws(s, after + 1)
        got == dict_set(kvs, key.v.s, val.v)
    IN  IF ~key.ok \/ At(s, colon) # ":" THEN ParseFail
        ELSE IF ~val.ok THEN ParseFail
        ELSE IF At(s, after) = "}" THEN Parsed(PyDict(got), after + 1)
        ELSE IF At(s, after) = "," /\ At(s, next) = "\"" THEN scan_members(s, next + 1, got)
        ELSE ParseFail

\* JSONArray, at the first character of an element
scan_elements(s, i, xs) ==
    LET val == scan_value(s, i)
        after == skip_ws(s, val.i)
    IN  IF ~val.ok THEN ParseFail
        ELSE IF At(s, after) = "]" THEN Parsed(PyList(Append(xs, val.v)), after + 1)
        ELSE IF At(s, after) = "," THEN scan_elements(s, skip_ws(s, after + 1), Append(xs, val.v))
        ELSE ParseFail

\* scanner.py_make_scanner's _scan_once
scan_value(s, i) ==
    LET c == At(s, i)
        j == skip_ws(s, i + 1)
    IN  CASE c = "\"" -> scan_string(s, i + 1, <<>>)
          [] c = "{" ->
                IF At(s, j) = "}" THEN Parsed(PyDict(<<>>), j + 1)
                ELSE IF At(s, j) = "\"" THEN scan_members(s, j + 1, <<>>)
                ELSE ParseFail
          [] c = "[" ->
                IF At(s, j) = "]" THEN Parsed(PyList(<<>>), j + 1)
                ELSE scan_elements(s, j, <<>>)
          [] c = "n" -> IF Literal(s, i, <<"n","u","l","l">>) THEN Parsed(PyNone, i + 4)
                        ELSE ParseFail
          [] c = "t" -> IF Literal(s, i, <<"t","r","u","e">>) THEN Parsed(PyBool(TRUE), i + 4)
                        ELSE ParseFail
          [] c = "f" -> IF Literal(s, i, <<"f","a","l","s","e">>)
                        THEN Parsed(PyBool(FALSE), i + 5)
                        ELSE ParseFail
          [] c = "-" \/ c \in DigitChars -> scan_number(s, i)
          [] OTHER -> ParseFail

\* json.loads(s): one value, white space around it, and nothing else
json_loads(s) ==
    LET r == scan_value(s, skip_ws(s, 1))
    IN  IF r.ok /\ skip_ws(s, r.i) = Len(s) + 1 THEN r ELSE ParseFail

---------------------------------------------------------------------------
(* ProfileData *)

Str_url == <<"u","r","l">>
Str_key == <<"k","e","y">>
Str_value == <<"v","a","l","u","e">>
ColonSpace == <<":"," ">>
Excluded == <<"[","e","x","c","l","u","d","e","d","]">>

\* A dict of str values, as Python values
StrValues(kvs) == [i \in 1..Len(kvs) |-> <<kvs[i][1], PyStr(kvs[i][2])>>]

\* {str(k): "" if v is None else str(v) for k, v in d.items()}
Normalize(kvs) ==
    [i \in 1..Len(kvs) |-> <<kvs[i][1], IF kvs[i][2].t = "none" THEN <<>> ELSE py_str(kvs[i][2])>>]

\* A file is [readable, text]: read_text raises when it is not readable.
\* The result is [ok, raw]; ok is false when from_json raises.
from_json_data(data) ==
    IF ~data.ok THEN [ok |-> FALSE, raw |-> <<>>]
    ELSE IF data.v.t # "dict" THEN [ok |-> FALSE, raw |-> <<>>]
    ELSE [ok |-> TRUE, raw |-> Normalize(data.v.items)]

from_json(f) ==
    IF ~f.readable THEN [ok |-> FALSE, raw |-> <<>>]
    ELSE from_json_data(json_loads(f.text))

SafePair(kv) == ~is_forbidden_key(PyStr(kv[1]))
ForbiddenPair(kv) == is_forbidden_key(PyStr(kv[1]))

safe_items(raw) == SelectSeq(raw, SafePair)

\* A faulty variant: the key is compared with "z" as it stands.
forbidden_items_exact(raw) == SelectSeq(raw, LAMBDA kv : kv[1] = <<"z">>)

forbidden_items(raw) == SelectSeq(raw, ForbiddenPair)

---------------------------------------------------------------------------
(* The files, and what the file dialogs return *)

SeqsUpTo(S, n) == UNION {[1..m -> S] : m \in 0..n}

\* The JSON objects of at most n fields, each field a key of choices with one
\* of the key's values, no key twice.
ObjectsOf(choices, n) ==
    LET pairs == UNION {{<<c.key, v>> : v \in c.vals} : c \in choices}
    IN  {o \in SeqsUpTo(pairs, n) : \A i, j \in DOMAIN o : i # j => o[i][1] # o[j][1]}

\* The file json.dumps(o, indent=2) writes.
FileOf(o) == [readable |-> TRUE, text |-> json_dumps(o, 2)]

\* Files that are no JSON object: a missing file, text that is no JSON, an
\* array, a number, an object cut short.
BadFiles ==
    { [readable |-> FALSE, text |-> <<>>],
      [readable |-> TRUE, text |-> <<"x">>],
      [readable |-> TRUE, text |-> <<"[", "]">>],
      [readable |-> TRUE, text |-> <<"5">>],
      [readable |-> TRUE, text |-> <<"{", "\"", "a", "\"", ":">>] }

\* {"a":"b","a":"c"}: a key twice, and no white space
RepeatedKeyFile ==
    [readable |-> TRUE,
     text |-> <<"{", "\"","a","\"", ":", "\"","b","\"", ",",
                "\"","a","\"", ":", "\"","c","\"", "}">>]

LoadChoices ==
    { [key |-> <<"a">>, vals |-> {PyStr(<<"b", "\"">>), PyInt(5), PyNone, PyBool(TRUE)}],
      [key |-> <<"z">>, vals |-> {PyStr(<<"4">>)}],
      [key |-> <<" ", "Z">>, vals |-> {PyStr(<<"1">>)}],
      [key |-> Str_url, vals |-> {PyStr(<<" ", "u", " ">>), PyNone}] }

LoadObjects == ObjectsOf(LoadChoices, MaxFields)
LoadFiles ==
    {FileOf(o) : o \in LoadObjects} \cup {RepeatedKeyFile, [readable |-> TRUE, text |-> <<"5">>]}

\* The objects of the specification of every handler
CoreObjects ==
    { << <<<<"a">>, PyStr(<<"b">>)>>, <<<<"z">>, PyStr(<<"4">>)>> >>,
      << <<Str_url, PyStr(<<"u", " ">>)>> >> }
CoreFiles == {FileOf(o) : o \in CoreObjects} \cup BadFiles

\* The objects of the specification of drags and drops: an empty key, and
\* values with a quote, a backslash and a new line
DropObjects ==
    { << <<<<>>, PyStr(<<"q", "\"", "\\">>)>>, <<<<"a">>, PyStr(<<"b", "\n", "c">>)>> >> }
DropFiles == {FileOf(o) : o \in DropObjects}

\* What a file dialog returns: <<>> when it is cancelled, <<x>> for a choice x.
Sels(S) == {<<>>} \cup {<<x>> : x \in S}
LoadSels == Sels(LoadFiles)
CoreSels == Sels(CoreFiles)
DropSels == Sels(DropFiles)
SaveSels == Sels({"profile.json"})

\* from_json of every file of the model, evaluated once.
AllFiles == LoadFiles \cup CoreFiles \cup DropFiles
FromJson == [f \in AllFiles |-> from_json(f)]

---------------------------------------------------------------------------
(* MainWindow *)

\* The dict MainWindow.__init__ hands to populate_from_dict.
DefaultProfile ==
    <<
       <<<<"p","r","o","f","i","l","e","_","n","a","m","e">>,
         <<"B","i","l","l","i","n","g">>>>,
       <<<<"b","i","l","l","i","n","g","_","n","a","m","e">>,
         <<>>>>,
       <<<<"e","m","a","i","l">>,
         <<>>>>,
       <<<<"p","h","o","n","e">>,
         <<"9","9","9","9","9","9","9","9","9","9">>>>,
       <<<<"a","d","d","r","e","s","s","1">>,
         <<>>>>,
       <<<<"a","d","d","r","e","s","s","2">>,
         <<>>>>,
       <<<<"c","i","t","y">>,
         <<>>>>,
       <<<<"s","t","a","t","e">>,
         <<>>>>,
       <<<<"z","i","p">>,
         <<>>>>,
       <<<<"c","o","u","n","t","r","y">>,
         <<"U","S">>>>,
       <<<<"n","a","m","e">>,
         <<>>>>,
       <<<<"c","a","r","d","_","n","u","m","b","e","r">>,
         <<>>>>,
       <<<<"c","a","r","d","_","e","x","p","i","r","a","t","i","o","n">>,
         <<>>>>,
       <<<<"c","a","r","d","_","c","v","v">>,
         <<>>>>
    >>

\* What clear_all leaves in the four widgets it clears.
clear_all_widgets ==
    [safe_list |-> <<>>, forbidden_list |-> <<>>, pad |-> <<>>, url_input |-> <<>>]

SafeItem(kv) == [text |-> kv[1] \o ColonSpace \o kv[2], key |-> kv[1], value |-> kv[2]]
ForbiddenItem(kv) == kv[1] \o ColonSpace \o Excluded

\* The record and the widgets after populate_profile: w is what clear_all
\* left, safe and forbidden are the record's safe_items and forbidden_items.
populated_of(raw, w, safe, forbidden) ==
    [profile |-> raw,
     pad |-> w.pad,
     url_input |-> strip(dict_get(raw, Str_url, <<>>)),
     safe_list |-> w.safe_list \o [i \in 1..Len(safe) |-> SafeItem(safe[i])],
     forbidden_list |-> w.forbidden_list
        \o [i \in 1..Len(forbidden) |-> ForbiddenItem(forbidden[i])]]

\* A faulty variant: every field goes to the draggable list.
populated_all_safe(raw) ==
    populated_of(raw, clear_all_widgets, raw, forbidden_items(raw))

\* A faulty variant: the URL field keeps the url as the file has it.
populated_url_unstripped(raw) ==
    [populated_of(raw, clear_all_widgets, safe_items(raw), forbidden_items(raw))
        EXCEPT !.url_input = dict_get(raw, Str_url, <<>>)]

populated(raw) ==
    populated_of(raw, clear_all_widgets, safe_items(raw), forbidden_items(raw))

SetWidgets(p) ==
    /\ profile' = p.profile
    /\ pad' = p.pad
    /\ url_input' = p.url_input
    /\ safe_list' = p.safe_list
    /\ forbidden_list' = p.forbidden_list

\* populated of every record of the model, evaluated once.
AllRaws == {FromJson[f].raw : f \in AllFiles} \cup {Normalize(StrValues(DefaultProfile))}
Populated == [raw \in AllRaws |-> populated(raw)]

populate_profile(raw) == SetWidgets(Populated[raw])

\* The handler's record of what it did.
IO(op, f, w, o, d, r) ==
    /\ lastOp' = op
    /\ file' = f
    /\ written' = w
    /\ opened' = o
    /\ drag' = d
    /\ raised' = r

NoIO(op) == IO(op, <<>>, <<>>, <<>>, <<>>, FALSE)

\* A faulty variant: the widgets are cleared before the file is read.
load_json_file_clears_first(sel, prof) ==
    /\ IF prof.ok
       THEN populate_profile(prof.raw) /\ UNCHANGED clipboard
       ELSE /\ safe_list' = <<>>
            /\ forbidden_list' = <<>>
            /\ pad' = <<>>
            /\ url_input' = <<>>
            /\ UNCHANGED <<profile, clipboard>>
    /\ IO(IF prof.ok THEN "load_ok" ELSE "load_failed", sel, <<>>, <<>>, <<>>, FALSE)
    /\ UNCHANGED keyVars

\* The try block of load_json; prof is what from_json gave, [ok, raw].
load_json_file(sel, prof) ==
    /\ IF prof.ok
       THEN populate_profile(prof.raw) /\ UNCHANGED clipboard
       ELSE UNCHANGED appVars
    /\ IO(IF prof.ok THEN "load_ok" ELSE "load_failed", sel, <<>>, <<>>, <<>>, FALSE)
    /\ UNCHANGED keyVars

\* load_json: sel is what the file dialog returns, <<>> (cancelled) or <<f>>.
load_json(sel) ==
    IF sel = <<>>
    THEN /\ NoIO("load_cancelled")
         /\ UNCHANGED <<appVars, keyVars>>
    ELSE load_json_file(sel, FromJson[sel[1]])

clear_all ==
    /\ safe_list' = clear_all_widgets.safe_list
    /\ forbidden_list' = clear_all_widgets.forbidden_list
    /\ pad' = clear_all_widgets.pad
    /\ url_input' = clear_all_widgets.url_input
    /\ NoIO("clear")
    /\ UNCHANGED <<profile, clipboard, keyVars>>

\* The user types t into the URL field.
edit_url(t) ==
    /\ url_input' = t
    /\ NoIO("edit_url")
    /\ UNCHANGED <<profile, safe_list, forbidden_list, pad, clipboard, keyVars>>

Http == <<"h","t","t","p",":","/","/">>
Https == <<"h","t","t","p","s",":","/","/">>

\* A faulty variant: an empty field is opened too.
open_url_urls_always(text) ==
    LET url_text == strip(text)
    IN  IF ~(startswith(lower(url_text), Http) \/ startswith(lower(url_text), Https))
        THEN <<Https \o url_text>>
        ELSE <<url_text>>

\* What open_url hands to QDesktopServices.openUrl, the field holding text.
open_url_urls(text) ==
    LET url_text == strip(text)
    IN  IF url_text = <<>> THEN <<>>
        ELSE IF ~(startswith(lower(url_text), Http) \/ startswith(lower(url_text), Https))
        THEN <<Https \o url_text>>
        ELSE <<url_text>>

open_url ==
    /\ IO("open_url", <<>>, <<>>, open_url_urls(url_input), <<>>, FALSE)
    /\ UNCHANGED <<appVars, keyVars>>

\* A faulty variant: the url goes into the record itself, not into a copy of it.
current_profile_dict_in_place(raw, text) ==
    LET data == dict_set(raw, Str_url, strip(text))
    IN  [data |-> data, raw |-> data]

\* A faulty variant: the URL field's text goes in as it is typed.
current_profile_dict_unstripped(raw, text) ==
    [data |-> dict_set(raw, Str_url, text), raw |-> raw]

\* _current_profile_dict: the dict it returns, and the record after it.
current_profile_dict(raw, text) ==
    LET data == raw
    IN  [data |-> dict_set(data, Str_url, strip(text)), raw |-> raw]

\* The try block of save_json; r is what _current_profile_dict gave and left,
\* io is whether write_text succeeds.
save_json_file(r, io) ==
    /\ profile' = r.raw
    /\ IO(IF io THEN "save_ok" ELSE "save_failed", <<>>,
          IF io THEN <<json_dumps(StrValues(r.data), 2)>> ELSE <<>>, <<>>, <<>>, FALSE)
    /\ UNCHANGED <<safe_list, forbidden_list, url_input, pad, clipboard, keyVars>>

\* save_json: sel is what the file dialog returns, <<>> or <<path>>.
save_json(sel, io) ==
    IF sel = <<>>
    THEN /\ NoIO("save_cancelled")
         /\ UNCHANGED <<appVars, keyVars>>
    ELSE save_json_file(current_profile_dict(profile, url_input), io)

---------------------------------------------------------------------------
(* The drag payload: DraggableList.startDrag and DropPad *)

\* A byte that no UTF-8 text holds.
BadByte == "0xFF"

\* str.encode("utf-8"), of ASCII characters: one byte each, the character's own
utf8_encode(s) == [i \in 1..Len(s) |-> s[i]]

\* bytes.decode("utf-8"): [ok, s]; ok is false when it raises UnicodeDecodeError
utf8_decode(b) ==
    IF \E i \in 1..Len(b) : b[i] = BadByte
    THEN [ok |-> FALSE, s |-> <<>>]
    ELSE [ok |-> TRUE, s |-> [i \in 1..Len(b) |-> b[i]]]

\* A QMimeData: text() is "" when it has no text.
Mime(hasText, text, hasField, data) ==
    [hasText |-> hasText, text |-> text, hasField |-> hasField, data |-> data]

\* A faulty variant: the plain text is the "key: value" line.
drag_mime_text_line(key, value) ==
    Mime(TRUE, key \o ColonSpace \o value, TRUE,
         utf8_encode(json_dumps(<< <<Str_key, PyStr(key)>>,
                                   <<Str_value, PyStr(key \o ColonSpace \o value)>> >>, 0)))

\* The QMimeData startDrag builds of an item's key and value.
drag_mime(key, value) ==
    Mime(TRUE, value, TRUE,
         utf8_encode(json_dumps(<< <<Str_key, PyStr(key)>>, <<Str_value, PyStr(value)>> >>, 0)))

dragEnterEvent(md) == md.hasText \/ md.hasField

\* A QString argument: a str goes through, anything else raises TypeError.
\* None is taken as the null string by some versions of the binding and
\* refused by others: noneOk says which.
qstring(v, noneOk) ==
    CASE v.t = "str" -> [ok |-> TRUE, s |-> v.s]
      [] v.t = "none" -> [ok |-> noneOk, s |-> <<>>]
      [] OTHER -> [ok |-> FALSE, s |-> <<>>]

\* What dropEvent starts from, and keeps when the try block raises.
undecoded(md) == [key |-> PyStr(<<>>), value |-> PyStr(md.text)]

\* payload.get("key", ""), payload.get("value", value)
decode_payload(md, payload) ==
    IF ~payload.ok \/ payload.v.t # "dict" THEN undecoded(md)
    ELSE [key |-> dict_get(payload.v.items, Str_key, PyStr(<<>>)),
          value |-> dict_get(payload.v.items, Str_value, PyStr(md.text))]

decode_text(md, text) ==
    IF ~text.ok THEN undecoded(md) ELSE decode_payload(md, json_loads(text.s))

\* The try block of dropEvent: the key and the value after it.
decode_field(md) == decode_text(md, utf8_decode(md.data))

\* appendPlainText(line), then clipboard().setText(value): line and clip are
\* the two QString arguments, [ok, s].
drop_calls(key, value, line, clip) ==
    [pad |-> IF line.ok THEN Append(pad, line.s) ELSE pad,
     clipboard |-> IF line.ok /\ clip.ok THEN clip.s ELSE clipboard,
     raised |-> ~(line.ok /\ clip.ok),
     key |-> key,
     value |-> value]

\* dropEvent after the try block
drop_decoded(key, value, noneOk) ==
    drop_calls(key, value,
               IF Truthy(key)
               THEN [ok |-> TRUE, s |-> py_str(key) \o ColonSpace \o py_str(value)]
               ELSE qstring(value, noneOk),
               qstring(value, noneOk))

drop_of(dec, noneOk) == drop_decoded(dec.key, dec.value, noneOk)

\* dropEvent(event): the pad and the clipboard after it, whether it raised,
\* and the key and value it decoded.
dropEvent(md, noneOk) ==
    drop_of(IF md.hasField THEN decode_field(md) ELSE undecoded(md), noneOk)

\* A drag over the pad that ends in a drop on it: dragEnterEvent, then
\* dropEvent, its outcome r, when the drag was accepted.  row is 0 for a drag
\* from elsewhere.
Deliver(row, md, r) ==
    /\ Len(pad) < MaxPad
    /\ IF dragEnterEvent(md)
       THEN /\ pad' = r.pad
            /\ clipboard' = r.clipboard
            /\ IO("drop", <<>>, <<>>, <<>>, <<[row |-> row, md |-> md]>>, r.raised)
       ELSE /\ UNCHANGED <<pad, clipboard>>
            /\ IO("drop_ignored", <<>>, <<>>, <<>>, <<[row |-> row, md |-> md]>>, FALSE)
    /\ UNCHANGED <<profile, safe_list, forbidden_list, url_input, keyVars>>

startDrag_item(row, md, onPad) ==
    IF onPad
    THEN Deliver(row, md, dropEvent(md, TRUE))
    ELSE /\ IO("drag_elsewhere", <<>>, <<>>, <<>>, <<[row |-> row, md |-> md]>>, FALSE)
         /\ UNCHANGED <<appVars, keyVars>>

\* startDrag: row is the current item's, 0 when there is none; onPad is
\* whether drag.exec ends in a drop on the pad.
startDrag(row, onPad) ==
    IF row = 0
    THEN /\ NoIO("drag_none")
         /\ UNCHANGED <<appVars, keyVars>>
    ELSE startDrag_item(row, drag_mime(safe_list[row].key, safe_list[row].value), onPad)

\* Another application's drag ends in a drop on the pad.
external_drop(md, noneOk) == Deliver(0, md, dropEvent(md, noneOk))

---------------------------------------------------------------------------
(* What the user types and drags *)

UrlBodies ==
    { <<>>, <<"a">>, Http \o <<"a">>, Https \o <<"a">>,
      <<"H","T","T","P",":","/","/","a">>, <<"h","t","t","p",":","/","a">>,
      <<"H","t","t","p","S",":","/","/">> }
UrlTexts == UrlBodies \cup {<<" ">> \o b \o <<"\n">> : b \in UrlBodies}
CoreUrlTexts == {<<" ">>, <<"a", " ">>}

\* What another application may drag to the pad: plain text or none, and the
\* field format or none, its bytes no UTF-8, no JSON, no object, or an object
\* with any of key and value missing, a str, a number or null.
ExternalKeys == {PyStr(<<"k">>), PyStr(<<>>), PyInt(5), PyNone}
ExternalValues == {PyStr(<<"v">>), PyInt(5), PyNone}
ExternalObjects ==
    {k \o v : k \in {<<>>} \cup {<< <<Str_key, x>> >> : x \in ExternalKeys},
              v \in {<<>>} \cup {<< <<Str_value, x>> >> : x \in ExternalValues}}
ExternalData ==
    {utf8_encode(json_dumps(o, 0)) : o \in ExternalObjects}
        \cup {<<BadByte>>, <<"x">>, <<"[", "]">>, <<"5">>}
ExternalTransfers ==
    {Mime(FALSE, <<>>, FALSE, <<>>), Mime(TRUE, <<"t">>, FALSE, <<>>)}
        \cup {Mime(TRUE, <<"t">>, TRUE, d) : d \in ExternalData}
        \cup {Mime(FALSE, <<>>, TRUE, d) : d \in {<<"x">>, <<"{", "}">>}}
CoreTransfers ==
    { Mime(TRUE, <<"t">>, FALSE, <<>>),
      Mime(TRUE, <<"t">>, TRUE, utf8_encode(json_dumps(<< <<Str_value, PyInt(5)>> >>, 0))) }

DragRows == IF safe_list = <<>> THEN {0} ELSE 1..Len(safe_list)

KeyChars == {"z", "Z", "a", " ", "\n"}
KeyArgs ==
    {PyNone} \cup {PyStr(k) : k \in SeqsUpTo(KeyChars, MaxKeyLen)}
        \cup {PyStr(DefaultProfile[i][1]) : i \in DOMAIN DefaultProfile}

---------------------------------------------------------------------------
(* The specifications *)

\* populate_from_dict(d): the record it builds of the default dict.
InitProfile == Normalize(StrValues(DefaultProfile))

\* MainWindow.__init__: populate_from_dict of the default dict.
Init ==
    /\ profile = InitProfile
    /\ safe_list = populated(InitProfile).safe_list
    /\ forbidden_list = populated(InitProfile).forbidden_list
    /\ url_input = populated(InitProfile).url_input
    /\ pad = populated(InitProfile).pad
    /\ clipboard = <<>>
    /\ lastOp = "init"
    /\ file = <<>>
    /\ written = <<>>
    /\ opened = <<>>
    /\ drag = <<>>
    /\ raised = FALSE
    /\ keyArg = PyNone
    /\ keyRes = <<>>

\* Every handler, on few inputs.
Next ==
    \/ \E sel \in CoreSels : load_json(sel)
    \/ \E sel \in SaveSels, io \in BOOLEAN : save_json(sel, io)
    \/ clear_all
    \/ \E t \in CoreUrlTexts : edit_url(t)
    \/ open_url
    \/ \E row \in DragRows, onPad \in BOOLEAN : startDrag(row, onPad)
    \/ \E md \in CoreTransfers, noneOk \in BOOLEAN : external_drop(md, noneOk)

Spec == Init /\ [][Next]_vars

\* Load, save, clear and the URL field, on many files.
NextLoad ==
    \/ \E sel \in LoadSels : load_json(sel)
    \/ \E sel \in SaveSels, io \in BOOLEAN : save_json(sel, io)
    \/ clear_all
    \/ \E t \in CoreUrlTexts : edit_url(t)
    \/ open_url

SpecLoad == Init /\ [][NextLoad]_vars

\* The URL field, on many texts.
NextUrl ==
    \/ \E sel \in CoreSels : load_json(sel)
    \/ \E sel \in SaveSels, io \in BOOLEAN : save_json(sel, io)
    \/ clear_all
    \/ \E t \in UrlTexts : edit_url(t)
    \/ open_url

SpecUrl == Init /\ [][NextUrl]_vars

\* Drags and drops, on many transfers.
NextDrop ==
    \/ \E sel \in DropSels : load_json(sel)
    \/ clear_all
    \/ \E row \in DragRows, onPad \in BOOLEAN : startDrag(row, onPad)
    \/ \E md \in ExternalTransfers, noneOk \in BOOLEAN : external_drop(md, noneOk)

SpecDrop == Init /\ [][NextDrop]_vars

\* is_forbidden_key, on every key of KeyArgs.
InitKey ==
    /\ profile = InitProfile
    /\ safe_list = populated(InitProfile).safe_list
    /\ forbidden_list = populated(InitProfile).forbidden_list
    /\ url_input = populated(InitProfile).url_input
    /\ pad = populated(InitProfile).pad
    /\ clipboard = <<>>
    /\ lastOp = "init"
    /\ file = <<>>
    /\ written = <<>>
    /\ opened = <<>>
    /\ drag = <<>>
    /\ raised = FALSE
    /\ keyArg \in KeyArgs
    /\ keyRes = <<>>

classify ==
    /\ keyRes = <<>>
    /\ keyRes' = <<is_forbidden_key(keyArg)>>
    /\ UNCHANGED <<appVars, ioVars, keyArg>>

NextKey == classify

SpecKey == InitKey /\ [][NextKey]_vars

---------------------------------------------------------------------------
(* The claims *)

\* The text between the first and the last character of t that is no white
\* space: t trimmed.
Trimmed(t) ==
    LET ink == {i \in DOMAIN t : t[i] \notin Whitespace}
    IN  IF ink = {} THEN <<>>
        ELSE SubSeq(t, CHOOSE i \in ink : \A j \in ink : i <= j,
                       CHOOSE i \in ink : \A j \in ink : i >= j)

\* k is one z or Z with nothing but white space around it.
TrimmedIsZ(k) ==
    \E i \in DOMAIN k :
        /\ k[i] \in {"z", "Z"}
        /\ \A j \in DOMAIN k \ {i} : k[j] \in Whitespace

\* C1: in every reachable state no item of the draggable list carries a key
\* the policy forbids, and every item of the forbidden list is a forbidden key
\* of the record followed by ": [excluded]", without the key's value.
C1_SafeListHoldsNoForbiddenKey ==
    /\ \A i \in DOMAIN safe_list :
          /\ ~is_forbidden_key(PyStr(safe_list[i].key))
          /\ safe_list[i].text = safe_list[i].key \o <<":", " ">> \o safe_list[i].value
    /\ \A i \in DOMAIN forbidden_list :
          \E j \in DOMAIN profile :
              /\ is_forbidden_key(PyStr(profile[j][1]))
              /\ forbidden_list[i] = profile[j][1] \o <<":", " ">> \o Excluded

\* C1's case: a record with a forbidden key is shown, and a drop has happened.
C1_Witness ==
    /\ lastOp = "drop"
    /\ forbidden_list # <<>>
    /\ safe_list # <<>>
    /\ \E j \in DOMAIN profile : TrimmedIsZ(profile[j][1])

\* C2: a load that fails or is cancelled leaves the record, both lists, the
\* URL field, the pad and the clipboard as they were.
C2_FailedLoadChangesNothing ==
    [][lastOp' \in {"load_failed", "load_cancelled"} => UNCHANGED appVars]_vars

\* C2's case: a readable file was rejected while the lists, the URL field and
\* the pad held something.
C2_Witness ==
    /\ lastOp = "load_failed"
    /\ file[1].readable
    /\ safe_list # <<>>
    /\ url_input # <<>>
    /\ pad # <<>>

\* The record r with "url" set to t trimmed: in its place when r has the key,
\* as a new last field when not.
WithUrl(r, t) ==
    IF \E i \in DOMAIN r : r[i][1] = Str_url
    THEN [i \in DOMAIN r |-> IF r[i][1] = Str_url THEN <<Str_url, Trimmed(t)>> ELSE r[i]]
    ELSE r \o << <<Str_url, Trimmed(t)>> >>

\* What the text a save wrote parses to.
WrittenObject == json_loads(written[1])

\* C3: a successful save writes an object with the record's fields in the
\* record's order, "url" holding the URL field's text trimmed (in place of a
\* previous url, as a new last field when there was none, also when it is
\* empty), and nothing else.
C3_SaveWritesRecordWithUrl ==
    lastOp = "save_ok" =>
        /\ WrittenObject.ok
        /\ WrittenObject.v.t = "dict"
        /\ WrittenObject.v.items =
              [i \in DOMAIN WithUrl(profile, url_input) |->
                  <<WithUrl(profile, url_input)[i][1],
                    PyStr(WithUrl(profile, url_input)[i][2])>>]

\* C3's case: a save of a record that has a url, first among its fields or
\* not, while the URL field holds only white space.
C3_Witness ==
    /\ lastOp = "save_ok"
    /\ HasKey(profile, Str_url)
    /\ dict_get(profile, Str_url, <<>>) # <<>>
    /\ url_input # <<>>
    /\ Trimmed(url_input) = <<>>

\* C4: the record changes only in a successful load; save, clear, open URL,
\* drags and drops leave it as it is.
C4_RecordChangesOnlyOnLoad ==
    [][profile' # profile => lastOp' = "load_ok"]_vars

\* C4's case: a save has written a url that is not the record's, and the
\* record still has its own.
C4_Witness ==
    /\ lastOp = "save_ok"
    /\ HasKey(profile, Str_url)
    /\ WrittenObject.ok
    /\ dict_get(WrittenObject.v.items, Str_url, PyNone) #
          PyStr(dict_get(profile, Str_url, <<>>))

\* The field format is absent, or its bytes are no UTF-8, no JSON or no object.
Undecodable(md) ==
    \/ ~md.hasField
    \/ ~utf8_decode(md.data).ok
    \/ ~json_loads(utf8_decode(md.data).s).ok
    \/ json_loads(utf8_decode(md.data).s).v.t # "dict"

\* C5: a drop of any transfer the pad accepts raises nothing, and when the
\* field format is absent or cannot be decoded the pad gets the plain text
\* and the clipboard gets it too.
C5_DropNeverRaises ==
    [][lastOp' = "drop" =>
          /\ ~raised'
          /\ Undecodable(drag'[1].md) =>
                /\ pad' = Append(pad, drag'[1].md.text)
                /\ clipboard' = drag'[1].md.text]_vars

\* C6: the drop of a drag of a list item (k, v) decodes to k and v, appends
\* one record to the pad, "k: v" when k is not empty and v when it is, and
\* hands v alone to the clipboard.
C6_DragDropRoundTrip ==
    [][(lastOp' = "drop" /\ drag'[1].row > 0) =>
          /\ decode_field(drag'[1].md) =
                [key |-> PyStr(safe_list[drag'[1].row].key),
                 value |-> PyStr(safe_list[drag'[1].row].value)]
          /\ pad' = Append(pad, IF safe_list[drag'[1].row].key # <<>>
                                THEN safe_list[drag'[1].row].key \o <<":", " ">>
                                        \o safe_list[drag'[1].row].value
                                ELSE safe_list[drag'[1].row].value)
          /\ clipboard' = safe_list[drag'[1].row].value
          /\ ~raised']_vars

\* C6's case: the item dragged and dropped has an empty key, and a quote and
\* a backslash in its value.
C6_Witness ==
    /\ lastOp = "drop"
    /\ drag[1].row > 0
    /\ safe_list[drag[1].row].key = <<>>
    /\ "\"" \in Range(safe_list[drag[1].row].value)
    /\ "\\" \in Range(safe_list[drag[1].row].value)

Count(seq, x) == Cardinality({i \in DOMAIN seq : seq[i] = x})

\* The elements of sub come in the order they have in full.
InOrderOf(sub, full) ==
    \A a, b \in DOMAIN sub :
        a < b => \E i, j \in DOMAIN full : i < j /\ full[i] = sub[a] /\ full[j] = sub[b]

\* C8: safe_items and forbidden_items partition the record's fields: every
\* field is in exactly one of them, neither has a pair that is no field, and
\* each keeps the fields' order.
C8_ItemsPartitionFields ==
    /\ \A i \in DOMAIN profile :
          Count(safe_items(profile), profile[i]) + Count(forbidden_items(profile), profile[i]) = 1
    /\ Range(safe_items(profile)) \cup Range(forbidden_items(profile)) \subseteq Range(profile)
    /\ InOrderOf(safe_items(profile), profile)
    /\ InOrderOf(forbidden_items(profile), profile)

\* C8's case: a loaded record with a safe and a forbidden field.
C8_Witness ==
    /\ lastOp = "load_ok"
    /\ safe_items(profile) # <<>>
    /\ forbidden_items(profile) # <<>>

\* The files written of the model's objects, each with its object.
FileObjects ==
    {<<FileOf(o), o>> : o \in LoadObjects}
        \cup {<<RepeatedKeyFile, << <<<<"a">>, PyStr(<<"c">>)>> >> >>}

\* The object of the file the last load read.
LoadedObjects == {p[2] : p \in {q \in FileObjects : file = <<q[1]>>}}

\* The text str() gives of a JSON scalar.
TextOf(v) ==
    CASE v.t = "str" -> v.s
      [] v.t = "int" -> IntStr(v.n)
      [] v.t = "bool" -> IF v.b THEN <<"T","r","u","e">> ELSE <<"F","a","l","s","e">>

\* The application shows the fields: the lists hold them, the safe ones as
\* "k: v" and the forbidden ones as "k: [excluded]", and the URL field holds
\* the url trimmed, or nothing.
Shows(fields) ==
    /\ safe_list =
          [i \in DOMAIN SelectSeq(fields, LAMBDA kv : ~TrimmedIsZ(kv[1])) |->
              LET kv == SelectSeq(fields, LAMBDA x : ~TrimmedIsZ(x[1]))[i]
              IN  [text |-> kv[1] \o <<":", " ">> \o kv[2], key |-> kv[1], value |-> kv[2]]]
    /\ forbidden_list =
          [i \in DOMAIN SelectSeq(fields, LAMBDA kv : TrimmedIsZ(kv[1])) |->
              SelectSeq(fields, LAMBDA x : TrimmedIsZ(x[1]))[i][1] \o <<":", " ">> \o Excluded]
    /\ url_input =
          IF \E i \in DOMAIN fields : fields[i][1] = Str_url
          THEN Trimmed(fields[CHOOSE i \in DOMAIN fields : fields[i][1] = Str_url][2])
          ELSE <<>>

\* C9 as stated: after a successful load of an object the record is the
\* object with its nulls turned into the empty string, and the application
\* shows it and nothing else.
C9_RecordIsObjectButNulls ==
    lastOp = "load_ok" =>
        \A o \in LoadedObjects :
            [i \in DOMAIN profile |-> <<profile[i][1], PyStr(profile[i][2])>>] =
                [i \in DOMAIN o |-> <<o[i][1], IF o[i][2].t = "none" THEN PyStr(<<>>) ELSE o[i][2]>>]

\* C9, amended: after a successful load of an object the record is the
\* object with its nulls turned into the empty string and its numbers and
\* booleans into their text, and the application shows that record and
\* nothing of the one before.
C9_LoadShowsObject ==
    lastOp = "load_ok" =>
        \A o \in LoadedObjects :
            /\ profile = [i \in DOMAIN o |->
                            <<o[i][1], IF o[i][2].t = "none" THEN <<>> ELSE TextOf(o[i][2])>>]
            /\ Shows(profile)

\* C9's case: the object loaded has a number, and a url with white space
\* around it.
C9_Witness ==
    /\ lastOp = "load_ok"
    /\ \E o \in LoadedObjects :
          /\ \E i \in DOMAIN o : o[i][2].t = "int"
          /\ \E i \in DOMAIN o : o[i][1] = Str_url /\ o[i][2].t = "str"
    /\ url_input = <<"u">>

\* C10 as stated: every open_url hands one URL to the opener, the field's
\* text trimmed when that starts with http:// or https://, and https://
\* before it when not, and changes nothing else.
C10_OpenUrlAlwaysHandsOne ==
    [][lastOp' = "open_url" =>
          /\ opened' = << IF startswith(Trimmed(url_input), Http)
                             \/ startswith(Trimmed(url_input), Https)
                          THEN Trimmed(url_input)
                          ELSE Https \o Trimmed(url_input) >>
          /\ UNCHANGED appVars]_vars

\* t starts with the letters of p, in either case.
StartsWithAnyCase(t, p) ==
    /\ Len(t) >= Len(p)
    /\ \A i \in DOMAIN p : LowerChar(t[i]) = p[i]

\* C10, amended: open_url hands nothing to the opener when the field's text
\* trimmed is empty; otherwise it hands one URL, the text trimmed when that
\* starts with http:// or https:// in any letter case, and https:// before
\* it when not.  It changes nothing else.
C10_OpenUrlHandsOneUnlessEmpty ==
    [][lastOp' = "open_url" =>
          /\ opened' =
                IF Trimmed(url_input) = <<>> THEN <<>>
                ELSE << IF StartsWithAnyCase(Trimmed(url_input), Http)
                           \/ StartsWithAnyCase(Trimmed(url_input), Https)
                        THEN Trimmed(url_input)
                        ELSE Https \o Trimmed(url_input) >>
          /\ UNCHANGED appVars]_vars

\* C10's case: a text with white space around it and no scheme got https://.
C10_Witness ==
    /\ lastOp = "open_url"
    /\ url_input = <<" ", "a", "\n">>
    /\ opened = <<Https \o <<"a">> >>

=============================================================================
